---- MODULE Spec2Model ----
(***************************************************************************)
(* The loan lifecycle service of vaksi/loan_service: LoanService           *)
(* (internal/service/loan_service.go) over LoanRepository                  *)
(* (internal/repository/loan_repository.go) and the PostgreSQL schema.     *)
(*                                                                         *)
(* Every repository method is one SQL statement and therefore one atomic   *)
(* step.  A service call is a sequence of such steps with local            *)
(* computation in between; the service takes no lock and opens no          *)
(* transaction, so the steps of concurrent calls interleave freely.        *)
(* Amounts are whole currency units.  Identities (uuid.New) are modelled   *)
(* as the next unused number.                                              *)
(***************************************************************************)
EXTENDS Integers, Sequences, FiniteSets, TLC

\* ------------------------------------------------------------------ bounds
MaxLoans == 1
MaxPrincipal == 2
MaxRows == 3
MaxInvestors == 2
MaxProcs == 2

LoanIds == 1..MaxLoans
\* The loan identities of the tables: one more than the callers of the
\* concurrent specifications use, for the runs that need a second loan.
AllLoanIds == 1..(MaxLoans + 1)
Procs == 1..MaxProcs
Principals == 1..MaxPrincipal
Amounts == (0 - 1)..MaxPrincipal
InvestorIds == 1..MaxInvestors
Emails == {"", "a"}

\* ------------------------------------------------------------ domain types
LoanStateNone == "none"
LoanStateProposed == "proposed"
LoanStateApproved == "approved"
LoanStateInvested == "invested"
LoanStateDisbursed == "disbursed"

\* Position of a state in the lifecycle order.
Rank(s) ==
    CASE s = LoanStateNone -> 0
      [] s = LoanStateProposed -> 1
      [] s = LoanStateApproved -> 2
      [] s = LoanStateInvested -> 3
      [] s = LoanStateDisbursed -> 4

\* Outcomes of a service call (nil error, or the error returned).
Ok == "ok"
ErrNotFound == "not found"
ErrInvalidState == "invalid state"
ErrAlreadyApproved == "loan already approved"
ErrAlreadyDisbursed == "loan already disbursed"
ErrAlreadyFunded == "loan already fully funded"
ErrOverFunding == "investment would exceed principal"
ErrInvalidAmount == "amount must be positive"
ErrStorage == "storage error"
\* The request layer's own answer: the body did not bind or the date did not
\* parse, and the service was not called.
ErrBadRequest == "bad request"
NoResult == "-"

VARIABLES
    loans,          \* loans table: id -> [state, principal, updatedAt]
    approvals,      \* approvals table: loan id -> number of rows
    investors,      \* investors table: sequence of [id, email]
    investments,    \* investments table: loan id -> its rows [loan, investor, amount]
    disbursements,  \* disbursements table: loan id -> number of rows
    notifications,  \* "fully funded" lines printed, per loan
    proc,           \* the service calls in flight, one per caller slot
    acked,          \* successes reported to callers so far, per loan
    base            \* the tables as they were when the current batch began

db == <<loans, approvals, investors, investments, disbursements>>
vars == <<loans, approvals, investors, investments, disbursements,
          notifications, proc, acked, base>>

\* --------------------------------------------------------------- helpers
RECURSIVE SumAmounts(_)
SumAmounts(rows) ==
    IF rows = <<>> THEN 0 ELSE Head(rows).amount + SumAmounts(Tail(rows))

\* SELECT COALESCE(SUM(amount),0) FROM investments WHERE loan_id = l
GetTotalInvested(l) == SumAmounts(investments[l])

\* The Investments preload of a loan: its rows in insertion order.
RowsOf(l) == investments[l]

\* The number of rows in the investments table.
CountRows ==
    Cardinality(UNION {{<<l, i>> : i \in 1..Len(investments[l])} : l \in AllLoanIds})

NoLoan ==
    [id |-> 0, state |-> LoanStateNone, principal |-> 0, updatedAt |-> 0,
     approval |-> FALSE, disbursement |-> FALSE, investments |-> <<>>]

\* A lookup that returns an empty proposed loan where no row exists.
GetLoanByIDFound(l) ==
    [id |-> l,
     state |-> IF loans[l].state = LoanStateNone THEN LoanStateProposed
               ELSE loans[l].state,
     principal |-> loans[l].principal, updatedAt |-> loans[l].updatedAt,
     approval |-> approvals[l] > 0, disbursement |-> disbursements[l] > 0,
     investments |-> RowsOf(l)]

\* A lookup without its WHERE clause: the first stored loan, whatever
\* identity is asked for.
GetLoanByIDFirst(l) ==
    IF \A k \in AllLoanIds : loans[k].state = LoanStateNone THEN NoLoan
    ELSE LET f == CHOOSE k \in AllLoanIds :
                    /\ loans[k].state # LoanStateNone
                    /\ \A j \in AllLoanIds : j < k => loans[j].state = LoanStateNone
         IN [id |-> f, state |-> loans[f].state, principal |-> loans[f].principal,
             updatedAt |-> loans[f].updatedAt,
             approval |-> approvals[f] > 0,
             disbursement |-> disbursements[f] > 0,
             investments |-> RowsOf(f)]

\* A lookup without the Approval and Disbursement preloads.
GetLoanByIDBare(l) ==
    IF loans[l].state = LoanStateNone THEN NoLoan
    ELSE [id |-> l, state |-> loans[l].state, principal |-> loans[l].principal,
          updatedAt |-> loans[l].updatedAt,
          approval |-> FALSE, disbursement |-> FALSE,
          investments |-> RowsOf(l)]

\* SELECT the loan with Approval, Investments and Disbursement preloaded.
GetLoanByID(l) ==
    IF loans[l].state = LoanStateNone THEN NoLoan
    ELSE [id |-> l, state |-> loans[l].state, principal |-> loans[l].principal,
          updatedAt |-> loans[l].updatedAt,
          approval |-> approvals[l] > 0,
          disbursement |-> disbursements[l] > 0,
          investments |-> RowsOf(l)]

Idle ==
    [pc |-> "idle", op |-> "-", loanID |-> 0, investorID |-> 0, email |-> "",
     amount |-> 0, loan |-> NoLoan, investor |-> 0, currentTotal |-> -1,
     list |-> <<>>, result |-> NoResult, body |-> "valid"]

InFlight(p) == proc[p].pc \notin {"idle", "done"}

Return(p, res) == [proc EXCEPT ![p].pc = "done", ![p].result = res]

\* ------------------------------------------------------------------ Init
Init ==
    /\ loans = [l \in AllLoanIds |->
                  [state |-> LoanStateNone, principal |-> 0, updatedAt |-> 0]]
    /\ approvals = [l \in AllLoanIds |-> 0]
    /\ investors = <<>>
    /\ investments = [l \in AllLoanIds |-> <<>>]
    /\ disbursements = [l \in AllLoanIds |-> 0]
    /\ notifications = [l \in AllLoanIds |-> 0]
    /\ proc = [p \in Procs |-> Idle]
    /\ acked = [l \in AllLoanIds |->
                 [approve |-> 0, invest |-> 0, disburse |-> 0]]
    /\ base = db

\* ------------------------------------------------ conditions of the code
\* A state check that rejects only the final state.
ApproveAllowedLax(state) == state # LoanStateDisbursed

\* ApproveLoan's state check: the loan must be proposed.
ApproveAllowed(state) == state = LoanStateProposed

\* A state check that lets an already disbursed loan through.
DisburseAllowedLax(state) == state \in {LoanStateInvested, LoanStateDisbursed}

\* DisburseLoan's state check: the loan must be invested.
DisburseAllowed(state) == state = LoanStateInvested

\* A first state check that never fires.
IsFullyFundedStateNever(state) == FALSE

\* InvestInLoan's first state check: an invested loan is "already funded".
IsFullyFundedState(state) == state = LoanStateInvested

\* A second state check that also lets a proposed loan through.
InvestAllowedLax(state) == state \in {LoanStateProposed, LoanStateApproved}

\* InvestInLoan's second state check: the loan must be approved.
InvestAllowed(state) == state = LoanStateApproved

\* An amount check that lets zero through.
InvalidAmountLax(amount) == amount < 0

\* InvestInLoan's amount check.
InvalidAmount(amount) == amount <= 0

\* A guard that also rejects the contribution that completes the funding.
ReachesPrincipal(currentTotal, amount, principal) ==
    currentTotal + amount >= principal

\* InvestInLoan's over-funding guard.
ExceedsPrincipal(currentTotal, amount, principal) ==
    currentTotal + amount > principal

\* A promotion test that fires only past the principal.
OverFunded(newTotal, principal) == newTotal > principal

\* InvestInLoan's promotion test: exact equality with the principal.
FullyFunded(newTotal, principal) == newTotal = principal

\* An insert that is lost: no row is written.
CreateRecordLost(table, l) == table

\* CreateApproval / CreateDisbursement: INSERT of the loan's one record.
CreateRecord(table, l) == [table EXCEPT ![l] = @ + 1]

\* A table without the constraint.
UniqueViolationOff(table, l) == FALSE

\* The UNIQUE constraint on approvals.loan_id and disbursements.loan_id.
UniqueViolation(table, l) == table[l] > 0

\* A lookup by email that matches nothing.
MatchesEmailNever(rec, email) == FALSE

\* FindInvestorByEmail's WHERE email = ?
MatchesEmail(rec, email) == rec.email = email

\* A lookup by identity that finds whatever it is asked for.
InvestorKnownAlways(invs, id) == TRUE

\* GetInvestorByID: is there a record with this primary key?
InvestorKnown(invs, id) == \E i \in 1..Len(invs) : invs[i].id = id

\* An insert that merges the contribution into the investor's earlier row.
MergeRow(rows, invRec) ==
    IF \E i \in 1..Len(rows) : rows[i].investor = invRec.investor
    THEN LET i == CHOOSE j \in 1..Len(rows) : rows[j].investor = invRec.investor
         IN [rows EXCEPT ![i].amount = @ + invRec.amount]
    ELSE Append(rows, invRec)

\* CreateInvestment: INSERT of one new row.
InsertRow(rows, invRec) == Append(rows, invRec)

\* A return value that leaves the loaded list as it was.
AppendNothing(loan, invRec) == loan

\* loan.Investments = append(loan.Investments, *invRec)
AppendInvestment(loan, invRec) ==
    [loan EXCEPT !.investments = Append(@, invRec)]

\* No line is printed.
NotifyNothing(n, l) == n

\* The "fully funded" line (fmt.Printf), counted per loan.
Notify(n, l) == [n EXCEPT ![l] = @ + 1]

\* The state ApproveLoan / InvestInLoan / DisburseLoan assign before saving.
ApproveTarget == LoanStateApproved
\* A promotion that saves the state the loan already has.
InvestTargetStays == LoanStateApproved
InvestTarget == LoanStateInvested
DisburseTarget == LoanStateDisbursed

\* db.Save(loan): writes the columns of the caller's copy of the loan.
SavedLoan(stored, copy) ==
    [stored EXCEPT !.state = copy.state, !.updatedAt = stored.updatedAt + 1]

\* ------------------------------------------------------------ CreateLoan
\* uuid.New(): an identity no loan has yet, among the identities L.
FreshLoanId(L) == CHOOSE l \in L :
    /\ loans[l].state = LoanStateNone
    /\ \A k \in L : k < l => loans[k].state # LoanStateNone

\* The loans a caller may hand to CreateLoan: with or without an identity
\* and a state already filled in.
LoanInputs ==
    [id : {0, 1}, state : {LoanStateNone, LoanStateDisbursed},
     principal : Principals]

\* A CreateLoan that stores the identity and the state of its input.
NewLoanAsGiven(input, fresh) ==
    [id |-> IF input.id = 0 THEN fresh ELSE input.id,
     state |-> IF input.state = LoanStateNone THEN LoanStateProposed
               ELSE input.state,
     principal |-> input.principal, updatedAt |-> 1]

\* The loan CreateLoan stores and returns: the input with a new identity,
\* state proposed and fresh timestamps.
NewLoan(input, fresh) ==
    [id |-> fresh, state |-> LoanStateProposed,
     principal |-> input.principal, updatedAt |-> 1]

CreateLoan(input, L) ==
    /\ \E l \in L : loans[l].state = LoanStateNone
    /\ LET loan == NewLoan(input, FreshLoanId(L)) IN
       loans' = [loans EXCEPT ![loan.id] =
                   [state |-> loan.state, principal |-> loan.principal,
                    updatedAt |-> loan.updatedAt]]
    /\ UNCHANGED <<approvals, investors, investments, disbursements,
                   notifications, proc, acked, base>>

\* ----------------------------------------------------------- ApproveLoan
StartApprove(p, l) ==
    /\ proc[p].pc = "idle"
    /\ proc' = [proc EXCEPT ![p] =
                  [Idle EXCEPT !.pc = "GetLoanByID", !.op = "approve",
                               !.loanID = l]]
    /\ UNCHANGED <<db, notifications, acked>>

ApproveGetLoan(p) ==
    /\ proc[p].op = "approve" /\ proc[p].pc = "GetLoanByID"
    /\ LET loan == GetLoanByID(proc[p].loanID) IN
       proc' = IF loan.state = LoanStateNone THEN Return(p, ErrNotFound)
               ELSE IF ~ApproveAllowed(loan.state)
               THEN [proc EXCEPT ![p].loan = loan, ![p].pc = "done",
                                 ![p].result = ErrInvalidState]
               ELSE IF loan.approval
               THEN [proc EXCEPT ![p].loan = loan, ![p].pc = "done",
                                 ![p].result = ErrAlreadyApproved]
               ELSE [proc EXCEPT ![p].loan = [loan EXCEPT !.state = ApproveTarget],
                                 ![p].pc = "CreateApproval"]
    /\ UNCHANGED <<db, notifications, acked, base>>

ApproveCreateApproval(p) ==
    /\ proc[p].op = "approve" /\ proc[p].pc = "CreateApproval"
    /\ IF UniqueViolation(approvals, proc[p].loanID)
       THEN /\ proc' = Return(p, ErrStorage)
            /\ UNCHANGED approvals
       ELSE /\ approvals' = CreateRecord(approvals, proc[p].loanID)
            /\ proc' = [proc EXCEPT ![p].pc = "UpdateLoan"]
    /\ UNCHANGED <<loans, investors, investments, disbursements,
                   notifications, acked, base>>

ApproveUpdateLoan(p) ==
    /\ proc[p].op = "approve" /\ proc[p].pc = "UpdateLoan"
    /\ loans' = [loans EXCEPT ![proc[p].loanID] = SavedLoan(@, proc[p].loan)]
    /\ proc' = [proc EXCEPT ![p].loan.approval = TRUE, ![p].pc = "done",
                            ![p].result = Ok]
    /\ UNCHANGED <<approvals, investors, investments, disbursements,
                   notifications, acked, base>>

\* ---------------------------------------------------------- DisburseLoan
StartDisburse(p, l) ==
    /\ proc[p].pc = "idle"
    /\ proc' = [proc EXCEPT ![p] =
                  [Idle EXCEPT !.pc = "GetLoanByID", !.op = "disburse",
                               !.loanID = l]]
    /\ UNCHANGED <<db, notifications, acked>>

DisburseGetLoan(p) ==
    /\ proc[p].op = "disburse" /\ proc[p].pc = "GetLoanByID"
    /\ LET loan == GetLoanByID(proc[p].loanID) IN
       proc' = IF loan.state = LoanStateNone THEN Return(p, ErrNotFound)
               ELSE IF ~DisburseAllowed(loan.state)
               THEN [proc EXCEPT ![p].loan = loan, ![p].pc = "done",
                                 ![p].result = ErrInvalidState]
               ELSE IF loan.disbursement
               THEN [proc EXCEPT ![p].loan = loan, ![p].pc = "done",
                                 ![p].result = ErrAlreadyDisbursed]
               ELSE [proc EXCEPT ![p].loan = [loan EXCEPT !.state = DisburseTarget],
                                 ![p].pc = "CreateDisbursement"]
    /\ UNCHANGED <<db, notifications, acked, base>>

DisburseCreateDisbursement(p) ==
    /\ proc[p].op = "disburse" /\ proc[p].pc = "CreateDisbursement"
    /\ IF UniqueViolation(disbursements, proc[p].loanID)
       THEN /\ proc' = Return(p, ErrStorage)
            /\ UNCHANGED disbursements
       ELSE /\ disbursements' = CreateRecord(disbursements, proc[p].loanID)
            /\ proc' = [proc EXCEPT ![p].pc = "UpdateLoan"]
    /\ UNCHANGED <<loans, approvals, investors, investments,
                   notifications, acked, base>>

DisburseUpdateLoan(p) ==
    /\ proc[p].op = "disburse" /\ proc[p].pc = "UpdateLoan"
    /\ loans' = [loans EXCEPT ![proc[p].loanID] = SavedLoan(@, proc[p].loan)]
    /\ proc' = [proc EXCEPT ![p].loan.disbursement = TRUE, ![p].pc = "done",
                            ![p].result = Ok]
    /\ UNCHANGED <<approvals, investors, investments, disbursements,
                   notifications, acked, base>>

\* ---------------------------------------------------------- InvestInLoan
\* Calls that may still insert an investment row / an investor record.
PendingRows == Cardinality({q \in Procs : proc[q].op = "invest" /\ InFlight(q)})
PendingInvestors ==
    Cardinality({q \in Procs : /\ proc[q].op = "invest" /\ InFlight(q)
                               /\ proc[q].investorID = 0
                               /\ proc[q].investor = 0})

\* The call is bounded: the tables hold at most MaxRows investment rows and
\* MaxInvestors investor records.
StartInvest(p, l, investorID, email, amount) ==
    /\ proc[p].pc = "idle"
    /\ CountRows + PendingRows < MaxRows
    /\ investorID = 0 => Len(investors) + PendingInvestors < MaxInvestors
    /\ investorID # 0 => email = ""
    /\ proc' = [proc EXCEPT ![p] =
                  [Idle EXCEPT !.pc = IF InvalidAmount(amount) THEN "done"
                                      ELSE "GetLoanByID",
                               !.result = IF InvalidAmount(amount)
                                          THEN ErrInvalidAmount ELSE NoResult,
                               !.op = "invest", !.loanID = l,
                               !.investorID = investorID, !.email = email,
                               !.amount = amount]]
    /\ UNCHANGED <<db, notifications, acked>>

\* A resolution that sends the call back to read the loan again.
ResolveStepAgain(investorID, email) == "GetLoanByID"

\* A resolution that looks the address up even when none is given.
ResolveStepLookup(investorID, email) ==
    IF investorID # 0 THEN "GetInvestorByID" ELSE "FindInvestorByEmail"

\* Where investor resolution starts, from the call's arguments.
ResolveStep(investorID, email) ==
    IF investorID # 0 THEN "GetInvestorByID"
    ELSE IF email # "" THEN "FindInvestorByEmail"
    ELSE "CreateInvestor"

InvestGetLoan(p) ==
    /\ proc[p].op = "invest" /\ proc[p].pc = "GetLoanByID"
    /\ LET loan == GetLoanByID(proc[p].loanID) IN
       proc' = IF loan.state = LoanStateNone THEN Return(p, ErrNotFound)
               ELSE IF IsFullyFundedState(loan.state)
               THEN [proc EXCEPT ![p].loan = loan, ![p].pc = "done",
                                 ![p].result = ErrAlreadyFunded]
               ELSE IF ~InvestAllowed(loan.state)
               THEN [proc EXCEPT ![p].loan = loan, ![p].pc = "done",
                                 ![p].result = ErrInvalidState]
               ELSE [proc EXCEPT ![p].loan = loan,
                                 ![p].pc = ResolveStep(proc[p].investorID,
                                                       proc[p].email)]
    /\ UNCHANGED <<db, notifications, acked, base>>

InvestGetInvestorByID(p) ==
    /\ proc[p].op = "invest" /\ proc[p].pc = "GetInvestorByID"
    /\ proc' = IF InvestorKnown(investors, proc[p].investorID)
               THEN [proc EXCEPT ![p].investor = proc[p].investorID,
                                 ![p].pc = "GetTotalInvested"]
               ELSE Return(p, ErrNotFound)
    /\ UNCHANGED <<db, notifications, acked, base>>

\* WHERE email = ? ... First: one of the matching records (the order of the
\* random primary keys decides which), or none.
InvestFindInvestorByEmail(p) ==
    /\ proc[p].op = "invest" /\ proc[p].pc = "FindInvestorByEmail"
    /\ LET found == {i \in 1..Len(investors) :
                        MatchesEmail(investors[i], proc[p].email)} IN
       IF found = {}
       THEN proc' = [proc EXCEPT ![p].pc = "CreateInvestor"]
       ELSE \E i \in found :
              proc' = [proc EXCEPT ![p].investor = investors[i].id,
                                   ![p].pc = "GetTotalInvested"]
    /\ UNCHANGED <<db, notifications, acked, base>>

InvestCreateInvestor(p) ==
    /\ proc[p].op = "invest" /\ proc[p].pc = "CreateInvestor"
    /\ investors' = Append(investors,
                           [id |-> Len(investors) + 1, email |-> proc[p].email])
    /\ proc' = [proc EXCEPT ![p].investor = Len(investors) + 1,
                            ![p].pc = "GetTotalInvested"]
    /\ UNCHANGED <<loans, approvals, investments, disbursements,
                   notifications, acked, base>>

InvestGetTotalInvested(p) ==
    /\ proc[p].op = "invest" /\ proc[p].pc = "GetTotalInvested"
    /\ LET currentTotal == GetTotalInvested(proc[p].loan.id) IN
       proc' = IF ExceedsPrincipal(currentTotal, proc[p].amount,
                                   proc[p].loan.principal)
               THEN [proc EXCEPT ![p].currentTotal = currentTotal,
                                 ![p].pc = "done", ![p].result = ErrOverFunding]
               ELSE [proc EXCEPT ![p].currentTotal = currentTotal,
                                 ![p].pc = "CreateInvestment"]
    /\ UNCHANGED <<db, notifications, acked, base>>

InvestCreateInvestment(p) ==
    /\ proc[p].op = "invest" /\ proc[p].pc = "CreateInvestment"
    /\ LET invRec == [loan |-> proc[p].loan.id, investor |-> proc[p].investor,
                      amount |-> proc[p].amount]
           newTotal == proc[p].currentTotal + proc[p].amount
       IN /\ investments' = [investments EXCEPT ![proc[p].loan.id] =
                                        InsertRow(@, invRec)]
          /\ proc' = IF FullyFunded(newTotal, proc[p].loan.principal)
                     THEN [proc EXCEPT ![p].loan.state = InvestTarget,
                                       ![p].pc = "UpdateLoan"]
                     ELSE [proc EXCEPT
                             ![p].loan = AppendInvestment(@, invRec),
                             ![p].pc = "done", ![p].result = Ok]
    /\ UNCHANGED <<loans, approvals, investors, disbursements,
                   notifications, acked, base>>

\* The save of the promoted loan, then the "fully funded" line.
InvestUpdateLoan(p) ==
    /\ proc[p].op = "invest" /\ proc[p].pc = "UpdateLoan"
    /\ loans' = [loans EXCEPT ![proc[p].loanID] = SavedLoan(@, proc[p].loan)]
    /\ notifications' = Notify(notifications, proc[p].loanID)
    /\ proc' = [proc EXCEPT
                  ![p].loan =
                      AppendInvestment(@, [loan |-> proc[p].loan.id,
                                           investor |-> proc[p].investor,
                                           amount |-> proc[p].amount]),
                  ![p].pc = "done", ![p].result = Ok]
    /\ UNCHANGED <<approvals, investors, investments, disbursements, acked, base>>

\* ------------------------------------------- GetLoanByID and ListLoans
StartGet(p, l) ==
    /\ proc[p].pc = "idle"
    /\ proc' = [proc EXCEPT ![p] =
                  [Idle EXCEPT !.pc = "GetLoanByID", !.op = "get", !.loanID = l]]
    /\ UNCHANGED <<db, notifications, acked>>

\* The service's GetLoanByID: the loan as the repository returns it.
GetLoan(p) ==
    /\ proc[p].op = "get" /\ proc[p].pc = "GetLoanByID"
    /\ LET loan == GetLoanByID(proc[p].loanID) IN
       proc' = IF loan.state = LoanStateNone THEN Return(p, ErrNotFound)
               ELSE [proc EXCEPT ![p].loan = loan, ![p].pc = "done",
                                 ![p].result = Ok]
    /\ UNCHANGED <<db, notifications, acked, base>>

StartList(p) ==
    /\ proc[p].pc = "idle"
    /\ proc' = [proc EXCEPT ![p] =
                  [Idle EXCEPT !.pc = "ListLoans", !.op = "list"]]
    /\ UNCHANGED <<db, notifications, acked>>

\* Every stored loan with its relationships preloaded, in identity order.
RECURSIVE ListFrom(_)
ListFrom(l) ==
    IF l \notin AllLoanIds THEN <<>>
    ELSE IF loans[l].state = LoanStateNone THEN ListFrom(l + 1)
    ELSE <<GetLoanByID(l)>> \o ListFrom(l + 1)

ListLoans(p) ==
    /\ proc[p].op = "list" /\ proc[p].pc = "ListLoans"
    /\ proc' = [proc EXCEPT ![p].list = ListFrom(1), ![p].pc = "done",
                            ![p].result = Ok]
    /\ UNCHANGED <<db, notifications, acked, base>>

\* ------------------------------------------------------- storage failures
\* The repository call the request is waiting on returns an error (the
\* database is unreachable, or the request's context is cancelled or past its
\* deadline): the statement has no effect and the service returns the error.
StorageFails(p) ==
    /\ InFlight(p)
    /\ proc' = Return(p, ErrStorage)
    /\ UNCHANGED <<db, notifications, acked, base>>

\* ------------------------------------------------- the caller gets its answer
Acked(a, op, res, amount) ==
    IF res # Ok THEN a
    ELSE IF op = "approve" THEN [a EXCEPT !.approve = @ + 1]
    ELSE IF op = "disburse" THEN [a EXCEPT !.disburse = @ + 1]
    ELSE IF op = "invest" THEN [a EXCEPT !.invest = @ + amount]
    ELSE a

AckOne(acks, p) ==
    IF proc[p].loan.id = 0 THEN acks
    ELSE [acks EXCEPT ![proc[p].loan.id] =
            Acked(@, proc[p].op, proc[p].result, proc[p].amount)]

Retire(p) ==
    /\ proc[p].pc = "done"
    /\ acked' = AckOne(acked, p)
    /\ proc' = [proc EXCEPT ![p] = Idle]
    /\ UNCHANGED <<db, notifications, base>>

RECURSIVE AckAll(_)
AckAll(S) ==
    IF S = {} THEN acked
    ELSE LET p == CHOOSE q \in S : TRUE IN AckOne(AckAll(S \ {p}), p)

\* Every call of the batch has returned; their callers read the results.
Settled == /\ \A q \in Procs : ~InFlight(q)
           /\ \E q \in Procs : proc[q].pc = "done"

RetireAll ==
    /\ Settled
    /\ acked' = AckAll({q \in Procs : proc[q].pc = "done"})
    /\ proc' = [q \in Procs |-> Idle]
    /\ UNCHANGED <<db, notifications, base>>

\* ------------------------------------------------------ the request layer
\* The HTTP handlers in front of the service.  A request body is valid, is
\* not JSON, lacks a required field, or carries a date that is not RFC3339.
Bodies == {"valid", "malformed", "missing field", "bad date"}

\* The principals a POST /loans request may carry.
RequestPrincipals == (0 - 1)..MaxPrincipal

StatusOK == 200
StatusBadRequest == 400
StatusNotFound == 404
StatusInternalServerError == 500

\* binding:"required" on a number: the value is not the zero value.
Required(x) == x # 0

\* The handler answers 400 and returns without calling the service.
BadRequest(p, op, l) ==
    /\ proc[p].pc = "idle"
    /\ \E body \in Bodies \ {"valid"} :
          proc' = [proc EXCEPT ![p] =
                     [Idle EXCEPT !.pc = "done", !.op = op, !.loanID = l,
                                  !.body = body, !.result = ErrBadRequest]]
    /\ UNCHANGED <<db, notifications, acked>>

\* POST /loans: the body binds (principal is required), then CreateLoan.
createLoan(principal, L) ==
    /\ Required(principal)
    /\ CreateLoan([id |-> 0, state |-> LoanStateNone, principal |-> principal], L)

\* POST /loans/:id/approve
approveLoan(p, l) == BadRequest(p, "approve", l) \/ StartApprove(p, l)

\* POST /loans/:id/invest: amount is required; there is no date.
investInLoan(p, l, investorID, email, amount) ==
    \/ /\ BadRequest(p, "invest", l)
       /\ proc'[p].body # "bad date"
    \/ /\ Required(amount)
       /\ StartInvest(p, l, investorID, email, amount)

\* POST /loans/:id/disburse
disburseLoan(p, l) == BadRequest(p, "disburse", l) \/ StartDisburse(p, l)

\* GET /loans/:id and GET /loans
getLoan(p, l) == StartGet(p, l)
listLoans(p) == StartList(p)

\* A getLoan that answers every error alike.
getLoanStatusFlat(res) ==
    IF res # Ok THEN StatusInternalServerError ELSE StatusOK

\* The status codes the handlers answer with, from the service's outcome.
getLoanStatus(res) ==
    IF res # Ok
    THEN IF res = ErrNotFound THEN StatusNotFound
         ELSE StatusInternalServerError
    ELSE StatusOK

listLoansStatus(res) ==
    IF res # Ok THEN StatusInternalServerError ELSE StatusOK

\* approveLoan, investInLoan and disburseLoan alike.
MutationStatus(res) ==
    IF res # Ok THEN StatusBadRequest ELSE StatusOK

\* The status code of the response to the request in slot p.
Status(p) ==
    IF proc[p].result = ErrBadRequest THEN StatusBadRequest
    ELSE IF proc[p].op = "get" THEN getLoanStatus(proc[p].result)
    ELSE IF proc[p].op = "list" THEN listLoansStatus(proc[p].result)
    ELSE MutationStatus(proc[p].result)

\* ------------------------------------------------------- specifications
Step(p) ==
    \/ ApproveGetLoan(p) \/ ApproveCreateApproval(p) \/ ApproveUpdateLoan(p)
    \/ InvestGetLoan(p) \/ InvestGetInvestorByID(p)
    \/ InvestFindInvestorByEmail(p) \/ InvestCreateInvestor(p)
    \/ InvestGetTotalInvested(p) \/ InvestCreateInvestment(p)
    \/ InvestUpdateLoan(p)
    \/ DisburseGetLoan(p) \/ DisburseCreateDisbursement(p)
    \/ DisburseUpdateLoan(p)
    \/ GetLoan(p) \/ ListLoans(p)

\* Caller slots are interchangeable: a new call takes the lowest free one.
LowestIdle(p) ==
    /\ proc[p].pc = "idle"
    /\ \A q \in Procs : q < p => proc[q].pc # "idle"

\* A caller invokes an operation on one of the loan identities in L.
Start(p, L) ==
    /\ LowestIdle(p)
    /\ \/ \E l \in L : StartApprove(p, l)
       \/ \E l \in L, i \in {0} \cup InvestorIds, e \in Emails, a \in Amounts :
             StartInvest(p, l, i, e, a)
       \/ \E l \in L : StartDisburse(p, l)
       \/ \E l \in L : StartGet(p, l)
       \/ StartList(p)

Quiet == \A q \in Procs : proc[q].pc = "idle"

\* Concurrent callers: any interleaving of the calls' storage steps.
Next ==
    \/ \E input \in LoanInputs : CreateLoan(input, LoanIds)
    \/ \E p \in Procs : Start(p, LoanIds) /\ UNCHANGED base
    \/ \E p \in Procs : Step(p)
    \/ \E p \in Procs : Retire(p)

Spec == Init /\ [][Next]_vars

\* One caller: a call starts only when no other call is in progress.
NextSeq ==
    \/ \E input \in LoanInputs : Quiet /\ CreateLoan(input, LoanIds)
    \/ \E p \in Procs : Quiet /\ Start(p, LoanIds) /\ UNCHANGED base
    \/ \E p \in Procs : Step(p)
    \/ \E p \in Procs : Retire(p)

SpecSeq == Init /\ [][NextSeq]_vars

\* One caller, and storage that may fail at any repository call.
NextFault ==
    \/ \E input \in LoanInputs : Quiet /\ CreateLoan(input, LoanIds)
    \/ \E p \in Procs : Quiet /\ Start(p, LoanIds) /\ UNCHANGED base
    \/ \E p \in Procs : Step(p)
    \/ \E p \in Procs : StorageFails(p)
    \/ \E p \in Procs : Retire(p)

SpecFault == Init /\ [][NextFault]_vars

\* One caller, and room for a second loan.
NextWide ==
    \/ \E input \in LoanInputs : Quiet /\ CreateLoan(input, AllLoanIds)
    \/ \E p \in Procs : Quiet /\ Start(p, AllLoanIds) /\ UNCHANGED base
    \/ \E p \in Procs : Step(p)
    \/ \E p \in Procs : Retire(p)

SpecWide == Init /\ [][NextWide]_vars

\* Concurrent callers on different loans: the call in slot p is on loan p, so
\* the calls in flight at any moment are on different loans, and their
\* storage steps interleave freely.
NextApart ==
    \/ \E input \in LoanInputs : CreateLoan(input, AllLoanIds)
    \/ \E p \in Procs : Start(p, AllLoanIds \cap {p}) /\ UNCHANGED base
    \/ \E p \in Procs : Step(p)
    \/ \E p \in Procs : Retire(p)

SpecApart == Init /\ [][NextApart]_vars

\* A client sends a request to one of the routes.
Request(p, L) ==
    /\ LowestIdle(p)
    /\ \/ \E l \in L : approveLoan(p, l)
       \/ \E l \in L, i \in {0} \cup InvestorIds, e \in Emails, a \in Amounts :
             investInLoan(p, l, i, e, a)
       \/ \E l \in L : disburseLoan(p, l)
       \/ \E l \in L : getLoan(p, l)
       \/ listLoans(p)

\* One client of the HTTP routes, and storage that may fail.
NextRequest ==
    \/ \E principal \in RequestPrincipals : Quiet /\ createLoan(principal, LoanIds)
    \/ \E p \in Procs : Quiet /\ Request(p, LoanIds) /\ UNCHANGED base
    \/ \E p \in Procs : Step(p)
    \/ \E p \in Procs : StorageFails(p)
    \/ \E p \in Procs : Retire(p)

SpecRequest == Init /\ [][NextRequest]_vars

\* A batch of concurrently invoked calls: the batch begins when a call starts
\* while no other is in progress (base records the tables at that moment),
\* further calls join while none has returned, and the callers read the
\* results when every call of the batch has returned.
NoneReturned == \A q \in Procs : proc[q].pc # "done"

NextBatch ==
    \/ \E input \in LoanInputs :
          Quiet /\ CreateLoan(input, LoanIds)
    \/ \E p \in Procs :
          /\ NoneReturned
          /\ Start(p, LoanIds)
          /\ base' = IF Quiet THEN db ELSE base
    \/ \E p \in Procs : Step(p)
    \/ RetireAll

SpecBatch == Init /\ [][NextBatch]_vars

\* ------------------------------------------- the operations run on their own
\* What each operation does when nothing interleaves with it: the same
\* statements, run in order on the tables d = <<loans, approvals, investors,
\* investments, disbursements>>.
Outcome(d, res) == [d |-> d, result |-> res]

ApproveAlone(d, l) ==
    IF d[1][l].state = LoanStateNone THEN Outcome(d, ErrNotFound)
    ELSE IF ~ApproveAllowed(d[1][l].state) THEN Outcome(d, ErrInvalidState)
    ELSE IF d[2][l] > 0 THEN Outcome(d, ErrAlreadyApproved)
    ELSE Outcome(<<[d[1] EXCEPT ![l].state = ApproveTarget,
                               ![l].updatedAt = @ + 1],
                   [d[2] EXCEPT ![l] = @ + 1], d[3], d[4], d[5]>>, Ok)

DisburseAlone(d, l) ==
    IF d[1][l].state = LoanStateNone THEN Outcome(d, ErrNotFound)
    ELSE IF ~DisburseAllowed(d[1][l].state) THEN Outcome(d, ErrInvalidState)
    ELSE IF d[5][l] > 0 THEN Outcome(d, ErrAlreadyDisbursed)
    ELSE Outcome(<<[d[1] EXCEPT ![l].state = DisburseTarget,
                               ![l].updatedAt = @ + 1],
                   d[2], d[3], d[4], [d[5] EXCEPT ![l] = @ + 1]>>, Ok)

\* Investor resolution: the investor's identity (0: not found) and the
\* investors table afterwards.
ResolveAlone(invs, investorID, email) ==
    LET byId == {i \in 1..Len(invs) : invs[i].id = investorID}
        byEmail == {i \in 1..Len(invs) : MatchesEmail(invs[i], email)}
    IN IF investorID # 0
       THEN [investor |-> IF byId = {} THEN 0 ELSE investorID, investors |-> invs]
       ELSE IF email # "" /\ byEmail # {}
       THEN [investor |-> invs[CHOOSE i \in byEmail : TRUE].id, investors |-> invs]
       ELSE [investor |-> Len(invs) + 1,
             investors |-> Append(invs, [id |-> Len(invs) + 1, email |-> email])]

InvestAlone(d, l, investorID, email, amount) ==
    IF InvalidAmount(amount) THEN Outcome(d, ErrInvalidAmount)
    ELSE IF d[1][l].state = LoanStateNone THEN Outcome(d, ErrNotFound)
    ELSE IF IsFullyFundedState(d[1][l].state) THEN Outcome(d, ErrAlreadyFunded)
    ELSE IF ~InvestAllowed(d[1][l].state) THEN Outcome(d, ErrInvalidState)
    ELSE LET r == ResolveAlone(d[3], investorID, email)
             d1 == <<d[1], d[2], r.investors, d[4], d[5]>>
             currentTotal == SumAmounts(d[4][l])
             rows == [d[4] EXCEPT ![l] =
                        Append(@, [loan |-> l, investor |-> r.investor,
                                   amount |-> amount])]
         IN IF r.investor = 0 THEN Outcome(d, ErrNotFound)
            ELSE IF ExceedsPrincipal(currentTotal, amount, d[1][l].principal)
            THEN Outcome(d1, ErrOverFunding)
            ELSE IF FullyFunded(currentTotal + amount, d[1][l].principal)
            THEN Outcome(<<[d[1] EXCEPT ![l].state = InvestTarget,
                                        ![l].updatedAt = @ + 1],
                           d[2], r.investors, rows, d[5]>>, Ok)
            ELSE Outcome(<<d[1], d[2], r.investors, rows, d[5]>>, Ok)

GetAlone(d, l) ==
    IF d[1][l].state = LoanStateNone THEN Outcome(d, ErrNotFound)
    ELSE Outcome(d, Ok)

\* Call p, as recorded in its slot, run on its own on the tables d.
RunAlone(d, p) ==
    IF proc[p].op = "approve" THEN ApproveAlone(d, proc[p].loanID)
    ELSE IF proc[p].op = "disburse" THEN DisburseAlone(d, proc[p].loanID)
    ELSE IF proc[p].op = "get" THEN GetAlone(d, proc[p].loanID)
    ELSE IF proc[p].op = "list" THEN Outcome(d, Ok)
    ELSE InvestAlone(d, proc[p].loanID, proc[p].investorID, proc[p].email,
                     proc[p].amount)

\* The stored data a caller can tell apart: per loan its state, its numbers
\* of Approval and Disbursement rows, and how many Investment rows of each
\* amount it has.
View(d) ==
    [l \in LoanIds |->
       [state |-> d[1][l].state, approvals |-> d[2][l],
        disbursements |-> d[5][l],
        rows |-> [a \in Amounts |->
                    Cardinality({i \in 1..Len(d[4][l]) :
                                   d[4][l][i].amount = a})]]]

\* Some order of the calls in S, run one after the other from the tables d,
\* returns what each call returned and ends in the tables as they are now.
RECURSIVE SomeSerialOrder(_, _)
SomeSerialOrder(S, d) ==
    IF S = {} THEN View(d) = View(db)
    ELSE \E p \in S :
           LET r == RunAlone(d, p)
           IN r.result = proc[p].result /\ SomeSerialOrder(S \ {p}, r.d)

\* ------------------------------------------------------------- the claims
Exists(l) == loans[l].state # LoanStateNone

\* An InvestInLoan call on loan l has started and not yet returned.
InvestInFlight(l) ==
    \E p \in Procs : proc[p].op = "invest" /\ proc[p].loanID = l /\ InFlight(p)

\* Call p of operation op saves loan l in this step.
SavesLoan(p, op, l) ==
    /\ proc[p].op = op /\ proc[p].loanID = l
    /\ proc[p].pc = "UpdateLoan" /\ proc'[p].pc = "done"

\* C1: in every reachable state, under any interleaving of concurrent
\* InvestInLoan calls, the amounts of a loan's Investment rows sum to at most
\* the loan's principal.
C1_TotalWithinPrincipal ==
    \A l \in LoanIds : Exists(l) => GetTotalInvested(l) <= loans[l].principal

\* C2: in every step of every execution the stored state of a loan is the
\* same as or later than before, in the order proposed < approved < invested
\* < disbursed.
C2_StateNeverMovesBackward ==
    [][\A l \in LoanIds : Rank(loans'[l].state) >= Rank(loans[l].state)]_vars

\* C4: every change of a loan's stored state advances exactly one step and is
\* made by the matching operation: none to proposed by CreateLoan, proposed to
\* approved by ApproveLoan, approved to invested by InvestInLoan, invested to
\* disbursed by DisburseLoan.
C4_OneStepByMatchingOperation ==
    [][\A l \in LoanIds :
         loans'[l].state # loans[l].state =>
           \/ /\ loans[l].state = LoanStateNone
              /\ loans'[l].state = LoanStateProposed
              /\ proc' = proc
           \/ /\ loans[l].state = LoanStateProposed
              /\ loans'[l].state = LoanStateApproved
              /\ \E p \in Procs : SavesLoan(p, "approve", l)
           \/ /\ loans[l].state = LoanStateApproved
              /\ loans'[l].state = LoanStateInvested
              /\ \E p \in Procs : SavesLoan(p, "invest", l)
           \/ /\ loans[l].state = LoanStateInvested
              /\ loans'[l].state = LoanStateDisbursed
              /\ \E p \in Procs : SavesLoan(p, "disburse", l)]_vars

\* C5: for each loan at most one InvestInLoan call performs the promotion to
\* invested and emits the funding-complete notification.
C5_PromotedAndNotifiedOnce ==
    \A l \in LoanIds : notifications[l] <= 1

\* C6: whenever no InvestInLoan call is in flight on a loan and the loan's
\* Investment rows sum exactly to its principal, the stored state is invested
\* or disbursed.
C6_FullyFundedIsInvested ==
    \A l \in LoanIds :
        (Exists(l) /\ ~InvestInFlight(l)
           /\ GetTotalInvested(l) = loans[l].principal)
        => loans[l].state \in {LoanStateInvested, LoanStateDisbursed}

\* C3: mutating operations on one loan are serialized: when every call of a
\* batch of concurrently invoked ApproveLoan, InvestInLoan and DisburseLoan
\* calls has returned, the results and the stored data are those of some
\* sequential execution of the same calls.
C3_EqualsSomeSerialExecution ==
    Settled => SomeSerialOrder({q \in Procs : proc[q].pc = "done"}, base)

\* A returned InvestInLoan call that found its loan approved (one caller at
\* a time: a failed call leaves the state as it found it, and a successful
\* one can only have found the loan approved).
InvestOnApproved(p) ==
    /\ proc[p].op = "invest" /\ proc[p].pc = "done"
    /\ Exists(proc[p].loanID)
    /\ proc[p].result = Ok \/ loans[proc[p].loanID].state = LoanStateApproved

\* The loan's total when call p began (one caller at a time).
TotalBefore(p) ==
    GetTotalInvested(proc[p].loanID)
      - (IF proc[p].result = Ok THEN proc[p].amount ELSE 0)

\* C7: for sequential InvestInLoan calls on an approved loan, a successful
\* call leaves the loan invested if and only if the total after recording
\* equals the principal; when the new total is below the principal the state
\* stays approved and the loan record is not written.
C7_InvestedIffTotalEqualsPrincipal ==
    \A p \in Procs :
        (InvestOnApproved(p) /\ proc[p].result = Ok) =>
          LET l == proc[p].loanID IN
          /\ loans[l].state = LoanStateInvested
               <=> GetTotalInvested(l) = loans[l].principal
          /\ GetTotalInvested(l) < loans[l].principal =>
               /\ loans[l].state = LoanStateApproved
               /\ loans[l].updatedAt = proc[p].loan.updatedAt

\* A second contribution has just completed the funding of a loan.
C7_Witness ==
    \E p \in Procs :
        /\ InvestOnApproved(p) /\ proc[p].result = Ok
        /\ TotalBefore(p) > 0
        /\ GetTotalInvested(proc[p].loanID) = loans[proc[p].loanID].principal
        /\ loans[proc[p].loanID].state = LoanStateInvested

\* C8 as stated: InvestInLoan on an approved loan whose current total is T
\* fails with the over-funding error exactly when T + amount > principal, and
\* on that failure no Investment row is added and the loan's total and state
\* are unchanged.
C8_OverFundingExactlyWhenExceeding ==
    \A p \in Procs :
        InvestOnApproved(p) =>
          LET l == proc[p].loanID IN
          /\ proc[p].result = ErrOverFunding
               <=> TotalBefore(p) + proc[p].amount > loans[l].principal
          /\ proc[p].result = ErrOverFunding =>
               /\ RowsOf(l) = proc[p].loan.investments
               /\ loans[l].state = LoanStateApproved
               /\ loans[l].updatedAt = proc[p].loan.updatedAt

\* C8 amended: the same, for a call whose investor resolves (a supplied
\* investor identity that does not exist is rejected as not found before the
\* total is read).
C8_OverFundingExactlyWhenExceeding_Resolved ==
    \A p \in Procs :
        (InvestOnApproved(p) /\ proc[p].result # ErrNotFound) =>
          LET l == proc[p].loanID IN
          /\ proc[p].result = ErrOverFunding
               <=> TotalBefore(p) + proc[p].amount > loans[l].principal
          /\ proc[p].result = ErrOverFunding =>
               /\ proc[p].currentTotal = TotalBefore(p)
               /\ RowsOf(l) = proc[p].loan.investments
               /\ loans[l].state = LoanStateApproved
               /\ loans[l].updatedAt = proc[p].loan.updatedAt

\* A contribution to a partly funded loan was rejected as over-funding.
C8_Witness ==
    \E p \in Procs :
        /\ InvestOnApproved(p) /\ proc[p].result = ErrOverFunding
        /\ proc[p].currentTotal > 0
        /\ proc[p].currentTotal < proc[p].loan.principal

\* Call p reads its loan in this step.
ReadsLoan(p, op) ==
    /\ proc[p].op = op /\ proc[p].pc = "GetLoanByID"
    /\ proc'[p].pc # "GetLoanByID"

\* C9: ApproveLoan on a loan whose state is not proposed, and DisburseLoan on
\* a loan whose state is not invested, fail with the invalid-state error and
\* write nothing: the call ends at its read of the loan and no table changes.
C9_WrongStateRejectedWithoutWrite ==
    [][\A p \in Procs :
         LET l == proc[p].loanID IN
         (\/ /\ ReadsLoan(p, "approve")
             /\ Exists(l) /\ loans[l].state # LoanStateProposed
          \/ /\ ReadsLoan(p, "disburse")
             /\ Exists(l) /\ loans[l].state # LoanStateInvested)
         => /\ proc'[p].pc = "done"
            /\ proc'[p].result = ErrInvalidState
            /\ db' = db]_vars

\* An approve of a loan read as invested and a disburse of a loan read as
\* approved have both been rejected.
C9_Witness ==
    /\ \E p \in Procs :
          /\ proc[p].op = "approve" /\ proc[p].pc = "done"
          /\ proc[p].result = ErrInvalidState
          /\ proc[p].loan.approval
    /\ \E p \in Procs :
          /\ proc[p].op = "disburse" /\ proc[p].pc = "done"
          /\ proc[p].result = ErrInvalidState
          /\ proc[p].loan.state = LoanStateApproved

\* Funding of loan l has been acknowledged to the callers in full.
AckedFunded(l) == Exists(l) /\ acked[l].invest = loans[l].principal

\* What ApproveLoan (DisburseLoan) returns on a loan with one caller at a
\* time: success the first time, and `again` once a call has succeeded.
TwiceInSequence(againApprove, againDisburse) ==
    \A p \in Procs :
        LET l == proc[p].loanID IN
        (proc[p].pc = "done" /\ l \in AllLoanIds /\ Exists(l)) =>
          /\ proc[p].op = "approve" =>
               /\ acked[l].approve = 0 => proc[p].result = Ok
               /\ acked[l].approve >= 1 => proc[p].result = againApprove
          /\ (proc[p].op = "disburse" /\ AckedFunded(l)) =>
               /\ acked[l].disburse = 0 => proc[p].result = Ok
               /\ acked[l].disburse >= 1 => proc[p].result = againDisburse

\* C10 as stated: ApproveLoan twice in sequence succeeds the first time and
\* fails the second time with "loan already approved"; DisburseLoan twice on
\* an invested loan succeeds once and then fails with "loan already
\* disbursed".
C10_SecondCallAlreadyDone ==
    TwiceInSequence(ErrAlreadyApproved, ErrAlreadyDisbursed)

\* C10 amended: the second call fails with the invalid-state error, because
\* the first call moved the loan out of the state the operation requires.
C10_SecondCallInvalidState ==
    TwiceInSequence(ErrInvalidState, ErrInvalidState)

\* A second DisburseLoan has returned after a first one succeeded (and so
\* after an ApproveLoan succeeded).
C10_Witness ==
    \E p \in Procs :
        /\ proc[p].op = "disburse" /\ proc[p].pc = "done"
        /\ acked[proc[p].loanID].disburse = 1
        /\ acked[proc[p].loanID].approve = 1
        /\ proc[p].result = ErrInvalidState

\* Call p of operation op has returned to its caller, on a loan that exists.
Returned(p, op) ==
    /\ proc[p].op = op /\ proc[p].pc = "done"
    /\ proc[p].loanID \in AllLoanIds /\ Exists(proc[p].loanID)

\* C11: after any ApproveLoan call has returned, with success or with an
\* error (a storage failure between its two writes included), the loan has an
\* Approval row if and only if its stored state is approved, invested or
\* disbursed.
C11_ApprovalRowIffApproved ==
    \A p \in Procs :
        Returned(p, "approve") =>
          LET l == proc[p].loanID IN
          approvals[l] > 0
            <=> loans[l].state \in {LoanStateApproved, LoanStateInvested,
                                    LoanStateDisbursed}

\* C12: after any DisburseLoan call has returned, with success or with an
\* error (a storage failure between its two writes included), the loan has a
\* Disbursement row if and only if its stored state is disbursed.
C12_DisbursementRowIffDisbursed ==
    \A p \in Procs :
        Returned(p, "disburse") =>
          LET l == proc[p].loanID IN
          disbursements[l] > 0 <=> loans[l].state = LoanStateDisbursed

\* C13: an InvestInLoan call that returns an error has added no Investment
\* row: when a call has returned, the loan's stored total is the sum of the
\* amounts of the calls that returned success (those acknowledged before,
\* plus this call's amount if it succeeded).
C13_TotalIsSumOfSuccesses ==
    \A p \in Procs :
        Returned(p, "invest") =>
          LET l == proc[p].loanID IN
          GetTotalInvested(l)
            = acked[l].invest
                + (IF proc[p].result = Ok THEN proc[p].amount ELSE 0)

\* The number of calls of operation op on loan l that have returned success:
\* those acknowledged before and those whose result is still to be read.
Successes(op, l) ==
    (IF op = "approve" THEN acked[l].approve ELSE acked[l].disburse)
      + Cardinality({p \in Procs : /\ proc[p].op = op /\ proc[p].pc = "done"
                                   /\ proc[p].loanID = l
                                   /\ proc[p].result = Ok})

\* C14: in every reachable state each loan has at most one Approval row and
\* at most one Disbursement row, and among any number of concurrent
\* ApproveLoan calls (DisburseLoan calls) on the same loan at most one
\* returns success.
C14_AtMostOneRowAndOneSuccess ==
    \A l \in LoanIds :
        /\ approvals[l] <= 1 /\ disbursements[l] <= 1
        /\ Successes("approve", l) <= 1
        /\ Successes("disburse", l) <= 1

\* Two concurrent DisburseLoan calls on an approved and funded loan have
\* returned: one succeeded, the other's insert hit the uniqueness constraint.
C14_Witness ==
    \E p, q \in Procs :
        /\ proc[p].op = "disburse" /\ proc[p].pc = "done" /\ proc[p].result = Ok
        /\ proc[q].op = "disburse" /\ proc[q].pc = "done"
        /\ proc[q].result = ErrStorage
        /\ proc[p].loanID = proc[q].loanID
        /\ acked[proc[p].loanID].approve = 1

\* C15: no Investment row is ever added to a loan while its stored state is
\* invested or disbursed, under any interleaving of InvestInLoan and
\* DisburseLoan calls.
C15_RowsAddedOnlyWhileApproved ==
    [][\A l \in LoanIds :
         investments'[l] # investments[l] =>
           loans[l].state \notin {LoanStateInvested, LoanStateDisbursed}]_vars

\* C16: two concurrent first-time InvestInLoan calls that give the same
\* contact address and no investor identity never leave two Investor records
\* with that address.
C16_OneInvestorPerAddress ==
    \A i, j \in 1..Len(investors) :
        (investors[i].email = investors[j].email /\ investors[i].email # "")
          => i = j

\* Call p is an InvestInLoan call that gave a contact address and no investor
\* identity, and has resolved its investor.
ResolvedByAddress(p) ==
    /\ proc[p].op = "invest" /\ proc[p].investorID = 0
    /\ proc[p].email # "" /\ proc[p].investor # 0

C18_RetrySucceedsAfterStorageFailure ==
    \A p \in Procs :
        LET l == proc[p].loanID IN
        /\ (Returned(p, "approve") /\ proc[p].result # ErrStorage) =>
             IF proc[p].result = Ok
             THEN loans[l].state = LoanStateApproved /\ approvals[l] = 1
             ELSE loans[l].state # LoanStateProposed
        /\ (Returned(p, "disburse") /\ proc[p].result # ErrStorage) =>
             IF proc[p].result = Ok
             THEN loans[l].state = LoanStateDisbursed /\ disbursements[l] = 1
             ELSE loans[l].state # LoanStateInvested

\* A caller invokes InvestInLoan in slot p in this step.
InvokesInvest(p) == proc[p].pc = "idle" /\ proc'[p].op = "invest"

\* C19: InvestInLoan with amount <= 0 fails with the invalid-amount error
\* before any storage call is made, whatever the loan identity given: the call
\* returns in the step that invokes it, having read no loan and no investor,
\* and no table changes.
C19_InvalidAmountBeforeStorage ==
    [][\A p \in Procs :
         (InvokesInvest(p) /\ proc'[p].amount <= 0) =>
           /\ proc'[p].pc = "done"
           /\ proc'[p].result = ErrInvalidAmount
           /\ proc'[p].loan = NoLoan /\ proc'[p].investor = 0
           /\ proc'[p].currentTotal = Idle.currentTotal
           /\ db' = db]_vars

\* A contribution of zero to an approved loan has been rejected.
C19_Witness ==
    \E p \in Procs :
        /\ proc[p].op = "invest" /\ proc[p].pc = "done"
        /\ proc[p].result = ErrInvalidAmount
        /\ proc[p].amount = 0
        /\ loans[proc[p].loanID].state = LoanStateApproved

\* What InvestInLoan does at its read of a loan found in state `state`: it
\* returns `res` and no table changes.
InvestRejectedAtRead(state, res) ==
    \A p \in Procs :
        (/\ ReadsLoan(p, "invest")
         /\ loans[proc[p].loanID].state = state)
        => /\ proc'[p].pc = "done"
           /\ proc'[p].result = res
           /\ db' = db

\* C20 as stated: InvestInLoan on a loan whose state is invested or disbursed
\* fails with "loan already fully funded", whatever the amount, and records
\* nothing.
C20_FundedOrBeyondAlreadyFunded ==
    [][/\ InvestRejectedAtRead(LoanStateInvested, ErrAlreadyFunded)
       /\ InvestRejectedAtRead(LoanStateDisbursed, ErrAlreadyFunded)]_vars

\* C20 amended: on an invested loan the call (with a positive amount) fails
\* with "loan already fully funded"; on a disbursed loan it fails with the
\* invalid-state error; in both cases it records nothing.
C20_InvestedAlreadyFunded ==
    [][/\ InvestRejectedAtRead(LoanStateInvested, ErrAlreadyFunded)
       /\ InvestRejectedAtRead(LoanStateDisbursed, ErrInvalidState)]_vars

\* A contribution to an invested loan that would not overflow a larger
\* principal has been rejected as already funded.
C20_Witness ==
    \E p \in Procs :
        /\ proc[p].op = "invest" /\ proc[p].pc = "done"
        /\ proc[p].result = ErrAlreadyFunded
        /\ proc[p].loan.state = LoanStateInvested
        /\ proc[p].amount < proc[p].loan.principal
        /\ loans[proc[p].loanID].state = LoanStateInvested

\* C21: InvestInLoan on a loan in state proposed fails with the invalid-state
\* error, creates neither an Investor record nor an Investment row, and
\* leaves the loan unchanged.
C21_InvestOnProposedRejected ==
    [][InvestRejectedAtRead(LoanStateProposed, ErrInvalidState)]_vars

\* A contribution by a new address to a proposed loan has been rejected, and
\* no investor record exists.
C21_Witness ==
    \E p \in Procs :
        /\ proc[p].op = "invest" /\ proc[p].pc = "done"
        /\ proc[p].result = ErrInvalidState
        /\ proc[p].email # "" /\ proc[p].amount > 0
        /\ loans[proc[p].loanID].state = LoanStateProposed
        /\ investors = <<>> /\ investments[proc[p].loanID] = <<>>

\* Call p looks up the investor identity it was given, in this step.
LooksUpInvestor(p) ==
    /\ proc[p].op = "invest" /\ proc[p].pc = "GetInvestorByID"
    /\ proc'[p].pc # "GetInvestorByID"

\* C22: InvestInLoan with a supplied investor identity that does not exist
\* fails with the not-found error, creates no Investor record, adds no
\* Investment row and leaves the loan's state unchanged.
C22_UnknownInvestorNotFound ==
    [][\A p \in Procs :
         (/\ LooksUpInvestor(p)
          /\ \A i \in 1..Len(investors) : investors[i].id # proc[p].investorID)
         => /\ proc'[p].pc = "done"
            /\ proc'[p].result = ErrNotFound
            /\ db' = db]_vars

\* A contribution to an approved loan under an investor identity that no
\* record has was rejected as not found.
C22_Witness ==
    \E p \in Procs :
        /\ proc[p].op = "invest" /\ proc[p].pc = "done"
        /\ proc[p].result = ErrNotFound
        /\ proc[p].investorID # 0
        /\ proc[p].loan.state = LoanStateApproved
        /\ loans[proc[p].loanID].state = LoanStateApproved

\* C23: ApproveLoan, InvestInLoan (with a positive amount) and DisburseLoan on
\* a loan identity that does not exist fail with the not-found error and
\* create no Approval, Investor, Investment or Disbursement record.
C23_AbsentLoanNotFound ==
    [][\A p \in Procs :
         (/\ \/ ReadsLoan(p, "approve") \/ ReadsLoan(p, "invest")
             \/ ReadsLoan(p, "disburse")
          /\ ~Exists(proc[p].loanID))
         => /\ proc'[p].pc = "done"
            /\ proc'[p].result = ErrNotFound
            /\ db' = db]_vars

\* A contribution by a new address to a loan identity that does not exist
\* was rejected as not found, and no record of any kind exists.
C23_Witness ==
    \E p \in Procs :
        /\ proc[p].op = "invest" /\ proc[p].pc = "done"
        /\ proc[p].result = ErrNotFound
        /\ proc[p].email # "" /\ proc[p].investorID = 0
        /\ ~Exists(proc[p].loanID)
        /\ investors = <<>>
        /\ \A l \in AllLoanIds :
             approvals[l] = 0 /\ disbursements[l] = 0 /\ investments[l] = <<>>

\* A loan as returned to a reader is a consistent snapshot.
Consistent(loan) ==
    /\ ~(loan.approval /\ loan.state = LoanStateProposed)
    /\ ~(loan.disbursement /\ loan.state # LoanStateDisbursed)
    /\ ~(SumAmounts(loan.investments) = loan.principal
         /\ loan.state = LoanStateApproved)

\* C24: GetLoanByID and ListLoans only ever return consistent snapshots, also
\* while mutating operations are in flight: never a loan with an Approval
\* attached and state proposed, a Disbursement attached and a state other
\* than disbursed, or Investment rows summing to the principal with state
\* approved.
C24_ReadsReturnConsistentSnapshots ==
    \A p \in Procs :
        (proc[p].pc = "done" /\ proc[p].result = Ok) =>
          /\ proc[p].op = "get" => Consistent(proc[p].loan)
          /\ proc[p].op = "list" =>
               \A i \in 1..Len(proc[p].list) : Consistent(proc[p].list[i])

\* C25: the sequential run create(principal P), approve, invest(P/2) by one
\* contributor, invest(P/2) by a second contributor, disburse succeeds at
\* every step: the state is approved after the first invest, invested after
\* the second with exactly two Investment rows, one Approval and no
\* Disbursement, and disbursed with exactly one Disbursement after disburse.
\* Each step of the run is recognised by what the callers have been told so
\* far (acked).
C25_FullRunSucceeds ==
    \A p \in Procs :
        LET l == proc[p].loanID
            half == 2 * proc[p].amount = loans[l].principal
            resolved == proc[p].result # ErrNotFound
        IN
        /\ (Returned(p, "approve") /\ acked[l].approve = 0) =>
             /\ proc[p].result = Ok
             /\ loans[l].state = LoanStateApproved /\ approvals[l] = 1
        /\ (/\ Returned(p, "invest") /\ half /\ resolved
            /\ acked[l].approve = 1 /\ acked[l].invest = 0) =>
             /\ proc[p].result = Ok
             /\ loans[l].state = LoanStateApproved
             /\ Len(investments[l]) = 1
        /\ (/\ Returned(p, "invest") /\ half /\ resolved
            /\ acked[l].invest = proc[p].amount /\ acked[l].disburse = 0) =>
             /\ proc[p].result = Ok
             /\ loans[l].state = LoanStateInvested
             /\ Len(investments[l]) = 2
             /\ approvals[l] = 1 /\ disbursements[l] = 0
        /\ (/\ Returned(p, "disburse") /\ AckedFunded(l)
            /\ acked[l].disburse = 0) =>
             /\ proc[p].result = Ok
             /\ loans[l].state = LoanStateDisbursed
             /\ disbursements[l] = 1 /\ approvals[l] = 1

\* The run has reached its end: the disburse has succeeded on a loan funded
\* in two halves by two different investors.
C25_Witness ==
    \E p \in Procs :
        LET l == proc[p].loanID IN
        /\ Returned(p, "disburse") /\ proc[p].result = Ok
        /\ acked[l].approve = 1 /\ acked[l].invest = loans[l].principal
        /\ Len(investments[l]) = 2
        /\ investments[l][1].amount = investments[l][2].amount
        /\ investments[l][1].investor # investments[l][2].investor
        /\ loans[l].state = LoanStateDisbursed
        /\ approvals[l] = 1 /\ disbursements[l] = 1

\* The Investment record call p builds from its arguments and its resolved
\* investor.
RecordOf(p) ==
    [loan |-> proc[p].loanID, investor |-> proc[p].investor,
     amount |-> proc[p].amount]

\* C26: a successful InvestInLoan returns the loan whose investment list is
\* the list loaded before the call followed by exactly one new entry carrying
\* the given amount, the loan's identity and the resolved investor's
\* identity: the list is loaded at the read of the loan, kept as loaded while
\* the call runs, and extended by the one entry when the call succeeds.
C26_ReturnsLoadedListPlusOne ==
    [][\A p \in Procs :
         /\ (ReadsLoan(p, "invest") /\ proc'[p].pc # "done") =>
               proc'[p].loan.investments = RowsOf(proc[p].loanID)
         /\ (/\ proc[p].op = "invest" /\ InFlight(p)
             /\ proc[p].pc # "GetLoanByID") =>
               IF proc'[p].pc = "done" /\ proc'[p].result = Ok
               THEN proc'[p].loan.investments
                      = Append(proc[p].loan.investments, RecordOf(p))
               ELSE proc'[p].loan.investments = proc[p].loan.investments]_vars

\* A second contribution has succeeded and returned a list of two entries,
\* the loaded one and its own.
C26_Witness ==
    \E p \in Procs :
        /\ proc[p].op = "invest" /\ proc[p].pc = "done" /\ proc[p].result = Ok
        /\ Len(proc[p].loan.investments) = 2
        /\ proc[p].loan.investments[2] = RecordOf(p)
        /\ proc[p].loan.investments[1] # RecordOf(p)

\* The tables other than loans.
OtherTables == <<approvals, investors, investments, disbursements>>

PromotionSaved(p, l) ==
    /\ SavesLoan(p, "invest", l) /\ proc'[p].result = Ok
    /\ loans'[l].state = LoanStateInvested
    /\ loans'[l].updatedAt = loans[l].updatedAt + 1

\* C28: the funding-complete notification is emitted only after the invested
\* state has been persisted successfully, and emitting it never changes or
\* rolls back any stored record: a loan's count of notifications grows, by
\* one, exactly in the steps in which an InvestInLoan call's save of the
\* invested state succeeds (not when that save fails), and such a step
\* changes no other table.
C28_NotifiedOnlyAfterPromotionSaved ==
    [][\A l \in AllLoanIds :
         /\ notifications'[l] # notifications[l] =>
              /\ notifications'[l] = notifications[l] + 1
              /\ \E p \in Procs : PromotionSaved(p, l)
              /\ OtherTables' = OtherTables
         /\ (\E p \in Procs : PromotionSaved(p, l)) =>
              notifications'[l] = notifications[l] + 1]_vars

\* The notification has been emitted for an invested loan whose funding call
\* has returned success.
C28_Witness ==
    \E p \in Procs :
        /\ Returned(p, "invest") /\ proc[p].result = Ok
        /\ notifications[proc[p].loanID] = 1
        /\ loans[proc[p].loanID].state = LoanStateInvested
        /\ GetTotalInvested(proc[p].loanID) = loans[proc[p].loanID].principal

\* Call p runs its CreateInvestment statement in this step.
InsertsRow(p, l) ==
    /\ proc[p].op = "invest" /\ proc[p].loanID = l
    /\ proc[p].pc = "CreateInvestment"
    /\ proc'[p].pc \in {"UpdateLoan", "done"} /\ proc'[p].result # ErrStorage

\* C29: Investment rows are only ever added: no operation changes or removes
\* an existing row, each successful InvestInLoan adds exactly one new row
\* (also when the same investor contributes again to the same loan), and a
\* loan's stored total never decreases.  Every change of a loan's rows is the
\* one row appended by an InvestInLoan call at its CreateInvestment, and
\* every such statement appends the call's row.
C29_RowsOnlyAppended ==
    [][\A l \in AllLoanIds :
         /\ investments'[l] # investments[l] =>
              /\ \E p \in Procs :
                   /\ InsertsRow(p, l)
                   /\ investments'[l] = Append(investments[l], RecordOf(p))
              /\ SumAmounts(investments'[l]) > SumAmounts(investments[l])
         /\ (\E p \in Procs : InsertsRow(p, l)) =>
              Len(investments'[l]) = Len(investments[l]) + 1]_vars

\* The same investor has contributed twice to the same loan: two rows.
C29_Witness ==
    \E p \in Procs :
        LET rows == investments[proc[p].loanID] IN
        /\ Returned(p, "invest") /\ proc[p].result = Ok
        /\ Len(rows) = 2
        /\ rows[1].investor = rows[2].investor
        /\ rows[2] = RecordOf(p)

\* Slot p holds a GetLoanByID or ListLoans call, before or after this step.
ReadCallActive(p) ==
    proc[p].op \in {"get", "list"} \/ proc'[p].op \in {"get", "list"}

\* C30: GetLoanByID and ListLoans make no storage write: from the invocation
\* of the call to the delivery of its result the stored loans, approvals,
\* investors, investments and disbursements stay as they are; GetLoanByID of
\* an absent identity returns the not-found error (and of a stored loan, the
\* loan in its stored state).
C30_ReadsWriteNothing ==
    [][\A p \in Procs :
         /\ ReadCallActive(p) => db' = db
         /\ ReadsLoan(p, "get") =>
              IF Exists(proc[p].loanID)
              THEN /\ proc'[p].result = Ok
                   /\ proc'[p].loan.state = loans[proc[p].loanID].state
              ELSE proc'[p].result = ErrNotFound]_vars

\* ListLoans has returned a funded loan with its approval and investments.
C30_Witness ==
    \E p \in Procs :
        /\ proc[p].op = "list" /\ proc[p].pc = "done" /\ proc[p].result = Ok
        /\ Len(proc[p].list) = 1
        /\ proc[p].list[1].state = LoanStateInvested
        /\ proc[p].list[1].approval
        /\ proc[p].list[1].investments = investments[proc[p].list[1].id]
        /\ Len(proc[p].list[1].investments) > 0

\* Slot p holds an ApproveLoan, InvestInLoan or DisburseLoan call that takes
\* this step (its invocation, one of its storage calls, or its return).
MutatingCallSteps(p) ==
    /\ proc'[p] # proc[p]
    /\ \/ proc[p].op \in {"approve", "invest", "disburse"}
       \/ proc'[p].op \in {"approve", "invest", "disburse"}

\* The loan the call in slot p is on.
LoanOf(p) == IF proc[p].loanID # 0 THEN proc[p].loanID ELSE proc'[p].loanID

\* C31: an ApproveLoan, InvestInLoan or DisburseLoan call on one loan never
\* changes another loan's state, Approval, Investment rows or Disbursement,
\* under any interleaving of operations on different loans: every step of
\* such a call leaves the records of every other loan as they were.
C31_OtherLoansUntouched ==
    [][\A p \in Procs :
         MutatingCallSteps(p) =>
           \A k \in AllLoanIds \ {LoanOf(p)} :
               /\ loans'[k] = loans[k]
               /\ approvals'[k] = approvals[k]
               /\ investments'[k] = investments[k]
               /\ disbursements'[k] = disbursements[k]]_vars

\* Two calls on different loans are between their two writes at the same
\* time: a contribution that funds loan 1 and an approval of loan 2 have
\* each inserted their row, and each loan has only its own records.
C31_Witness ==
    \E p, q \in Procs :
        /\ proc[p].op = "invest" /\ proc[p].pc = "UpdateLoan"
        /\ proc[q].op = "approve" /\ proc[q].pc = "UpdateLoan"
        /\ proc[p].loanID # proc[q].loanID
        /\ approvals[proc[q].loanID] = 1
        /\ investments[proc[q].loanID] = <<>>
        /\ loans[proc[q].loanID].state = LoanStateProposed
        /\ loans[proc[p].loanID].state = LoanStateApproved
        /\ GetTotalInvested(proc[p].loanID) = loans[proc[p].loanID].principal

\* The largest number of storage calls a service call at position pc can
\* still make: InvestInLoan makes at most six (the loan, the investor by
\* address, the new investor, the total, the row, the save), ApproveLoan and
\* DisburseLoan three, the reads one.
CallsLeft(pc) ==
    CASE pc = "GetLoanByID" -> 6
      [] pc = "FindInvestorByEmail" -> 5
      [] pc \in {"GetInvestorByID", "CreateInvestor"} -> 4
      [] pc = "GetTotalInvested" -> 3
      [] pc \in {"CreateInvestment", "CreateApproval", "CreateDisbursement"} -> 2
      [] pc \in {"UpdateLoan", "ListLoans"} -> 1
      [] OTHER -> 0

\* C32: every invoked operation returns, with success or an error, after a
\* bounded number of storage calls under any interleaving with other
\* operations on the same loan, provided each storage call returns: a call in
\* flight can always take its next step whatever the other calls are doing
\* (no operation waits on another, no deadlock), and each step it takes
\* lowers the number of storage calls it can still make, which is zero only
\* for a call that has returned.
C32_EveryCallReturns ==
    /\ [](\A p \in Procs :
            InFlight(p) => ENABLED Step(p) /\ CallsLeft(proc[p].pc) > 0)
    /\ [][\A p \in Procs :
            (InFlight(p) /\ proc'[p] # proc[p]) =>
              /\ CallsLeft(proc'[p].pc) < CallsLeft(proc[p].pc)
              /\ CallsLeft(proc'[p].pc) = 0 <=> proc'[p].pc = "done"]_vars

\* A contribution by a new address has returned success after all six of
\* its storage calls (it created its investor and saved the promotion) while
\* another call on the same loan was in flight and has made a write.
C32_Witness ==
    \E p, q \in Procs :
        /\ proc[p].op = "invest" /\ proc[p].pc = "done" /\ proc[p].result = Ok
        /\ proc[p].email # "" /\ proc[p].investorID = 0
        /\ Len(investors) = 1 /\ investors[1].id = proc[p].investor
        /\ CountRows = 1
        /\ proc[p].loan.state = LoanStateInvested
        /\ proc[q].loanID = proc[p].loanID
        /\ proc[q].op = "disburse" /\ proc[q].pc = "UpdateLoan"

\* C33: every stored loan has a principal greater than zero: CreateLoan never
\* persists a loan whose principal is zero or negative.
C33_PrincipalPositive ==
    \A l \in AllLoanIds : Exists(l) => loans[l].principal > 0

\* Call p's read of its loan returns the loan in this step.
LoadsLoan(p, op) == ReadsLoan(p, op) /\ proc'[p].result # ErrStorage

\* C34: ApproveLoan on a loan in state proposed that already has an Approval
\* record fails with "loan already approved", and DisburseLoan on a loan in
\* state invested that already has a Disbursement record fails with "loan
\* already disbursed"; in both cases no record is created and the loan record
\* is not written: the call ends at its read of the loan and no table changes.
C34_RecordPresentRejected ==
    [][\A p \in Procs :
         LET l == proc[p].loanID IN
         /\ (/\ LoadsLoan(p, "approve")
             /\ loans[l].state = LoanStateProposed /\ approvals[l] > 0)
            => /\ proc'[p].pc = "done"
               /\ proc'[p].result = ErrAlreadyApproved
               /\ db' = db
         /\ (/\ LoadsLoan(p, "disburse")
             /\ loans[l].state = LoanStateInvested /\ disbursements[l] > 0)
            => /\ proc'[p].pc = "done"
               /\ proc'[p].result = ErrAlreadyDisbursed
               /\ db' = db]_vars

\* A DisburseLoan on an invested loan that has a Disbursement record (left
\* by a call whose save failed) was rejected as already disbursed.
C34_Witness ==
    \E p \in Procs :
        /\ Returned(p, "disburse") /\ proc[p].result = ErrAlreadyDisbursed
        /\ loans[proc[p].loanID].state = LoanStateInvested
        /\ disbursements[proc[p].loanID] = 1
        /\ approvals[proc[p].loanID] = 1

\* An ApproveLoan on a proposed loan that has an Approval record was
\* rejected as already approved.
C34_WitnessApprove ==
    \E p \in Procs :
        /\ Returned(p, "approve") /\ proc[p].result = ErrAlreadyApproved
        /\ loans[proc[p].loanID].state = LoanStateProposed
        /\ approvals[proc[p].loanID] = 1

\* C35: in every reachable state with no operation in flight, no loan is
\* permanently stuck: a proposed loan can still be approved, an approved loan
\* can still accept some positive contribution, and an invested loan can
\* still be disbursed (the call, made now on its own with storage working,
\* succeeds); this holds also after storage failures in the middle of an
\* operation and after concurrent calls.
C35_NoLoanStuck ==
    Quiet =>
      \A l \in LoanIds :
          /\ loans[l].state = LoanStateProposed =>
                ApproveAlone(db, l).result = Ok
          /\ loans[l].state = LoanStateApproved =>
                \E a \in 1..MaxPrincipal : InvestAlone(db, l, 0, "", a).result = Ok
          /\ loans[l].state = LoanStateInvested =>
                DisburseAlone(db, l).result = Ok

\* C36: in every reachable state, under any interleaving, a loan whose stored
\* state is invested or disbursed has Investment rows summing exactly to its
\* principal.
C36_InvestedMeansFullyFunded ==
    \A l \in LoanIds :
        loans[l].state \in {LoanStateInvested, LoanStateDisbursed}
          => GetTotalInvested(l) = loans[l].principal

\* C37: the stored state never runs ahead of its evidence record: in every
\* reachable state, including after a storage failure between the two writes
\* of an operation, a loan in state approved, invested or disbursed has an
\* Approval row and a loan in state disbursed has a Disbursement row (the
\* record is written before the state).
C37_StateNeverAheadOfRecord ==
    \A l \in AllLoanIds :
        /\ loans[l].state \in {LoanStateApproved, LoanStateInvested,
                               LoanStateDisbursed} => approvals[l] > 0
        /\ loans[l].state = LoanStateDisbursed => disbursements[l] > 0

\* A DisburseLoan has failed between its two writes: the Disbursement row is
\* there and the loan, which has its Approval row, is still invested.
C37_Witness ==
    \E p \in Procs :
        /\ Returned(p, "disburse") /\ proc[p].result = ErrStorage
        /\ proc[p].loan.state = LoanStateDisbursed
        /\ disbursements[proc[p].loanID] = 1
        /\ loans[proc[p].loanID].state = LoanStateInvested
        /\ approvals[proc[p].loanID] = 1

\* Call p is the only call of its batch: it ran with no other call in
\* progress, from the tables recorded in base.
RanAlone(p) == \A q \in Procs \ {p} : proc[q].pc = "idle"

\* C38: an InvestInLoan call rejected by the over-funding guard leaves every
\* stored table unchanged, including the Investor table: a rejected
\* contribution from a previously unknown contact address creates no Investor
\* record.
C38_OverFundingRejectionWritesNothing ==
    \A p \in Procs :
        (/\ proc[p].op = "invest" /\ proc[p].pc = "done"
         /\ proc[p].result = ErrOverFunding /\ RanAlone(p))
        => db = base

\* Call p is an InvestInLoan call in flight that gave neither an investor
\* identity nor a contact address.
Anonymous(p) ==
    /\ proc[p].op = "invest" /\ InFlight(p)
    /\ proc[p].investorID = 0 /\ proc[p].email = ""

\* C39: InvestInLoan called with neither an investor identity nor a contact
\* address performs no lookup and creates a new Investor record on every call
\* (that gets as far as resolving its investor: a positive amount on an
\* approved loan), so two such calls never share an Investor record: from
\* its read of the loan the call goes straight to CreateInvestor, never to a
\* lookup, and the record it creates and uses carries an identity no earlier
\* record has.
C39_NoAddressAlwaysNewInvestor ==
    [][\A p \in Procs :
         Anonymous(p) =>
           /\ proc'[p].pc \notin {"GetInvestorByID", "FindInvestorByEmail"}
           /\ (proc[p].pc = "GetLoanByID" /\ InFlight(p)') =>
                 proc'[p].pc = "CreateInvestor"
           /\ proc[p].pc # "CreateInvestor" =>
                 /\ investors' = investors
                 /\ proc'[p].investor = proc[p].investor
           /\ proc[p].pc = "CreateInvestor" =>
                 /\ Len(investors') = Len(investors) + 1
                 /\ SubSeq(investors', 1, Len(investors)) = investors
                 /\ investors'[Len(investors')].id = proc'[p].investor
                 /\ \A i \in 1..Len(investors) :
                       investors[i].id # proc'[p].investor]_vars

\* Two contributions without identity or address have succeeded on the same
\* loan: there are two Investor records, neither with an address, and the
\* loan's two rows belong to different investors.
C39_Witness ==
    \E p \in Procs :
        LET rows == investments[proc[p].loanID] IN
        /\ Returned(p, "invest") /\ proc[p].result = Ok
        /\ proc[p].investorID = 0 /\ proc[p].email = ""
        /\ Len(investors) = 2
        /\ investors[1].email = "" /\ investors[2].email = ""
        /\ Len(rows) = 2
        /\ rows[1].investor # rows[2].investor
        /\ rows[2].investor = proc[p].investor

\* C40: the request layer maps core outcomes to status codes as follows:
\* get-by-id answers 404 when the core returns not-found and 500 for any
\* other error; list answers 500 on error; approve, invest and disburse
\* answer 400 for every core error (including not-found and storage
\* failures) and never for a core success; a request with a malformed body, a
\* missing required field or a non-RFC3339 date is answered 400 without the
\* core operation being invoked (no storage call is made for it, and a
\* request that reaches the core had a valid body with its required amount).
C40_StatusCodes ==
    \A p \in Procs :
        /\ proc[p].pc = "done" =>
              /\ proc[p].op = "get" =>
                    /\ proc[p].result = ErrNotFound => Status(p) = StatusNotFound
                    /\ proc[p].result \notin {Ok, ErrNotFound} =>
                          Status(p) = StatusInternalServerError
              /\ proc[p].op = "list" =>
                    (proc[p].result # Ok => Status(p) = StatusInternalServerError)
              /\ proc[p].op \in {"approve", "invest", "disburse"} =>
                    (Status(p) = StatusBadRequest <=> proc[p].result # Ok)
        /\ proc[p].body # "valid" =>
              /\ proc[p].pc = "done" /\ Status(p) = StatusBadRequest
              /\ proc[p].result = ErrBadRequest
              /\ proc[p].loan = NoLoan /\ proc[p].investor = 0
              /\ proc[p].currentTotal = Idle.currentTotal
        /\ (proc[p].op = "invest" /\ proc[p].result # ErrBadRequest) =>
              proc[p].amount # 0

\* An approve request whose date is not RFC3339 was answered 400 and the
\* proposed loan has no Approval record.
C40_Witness ==
    \E p \in Procs :
        /\ proc[p].op = "approve" /\ proc[p].pc = "done"
        /\ proc[p].body = "bad date" /\ Status(p) = StatusBadRequest
        /\ loans[proc[p].loanID].state = LoanStateProposed
        /\ approvals[proc[p].loanID] = 0

\* A get-by-id of a stored loan whose lookup failed was answered 500.
C40_WitnessGetFails ==
    \E p \in Procs :
        /\ proc[p].op = "get" /\ proc[p].pc = "done"
        /\ proc[p].result = ErrStorage /\ Exists(proc[p].loanID)
        /\ Status(p) = StatusInternalServerError

\* A get-by-id of an absent loan was answered 404.
C40_WitnessGetAbsent ==
    \E p \in Procs :
        /\ proc[p].op = "get" /\ proc[p].pc = "done"
        /\ proc[p].result = ErrNotFound /\ ~Exists(proc[p].loanID)
        /\ Status(p) = StatusNotFound

====
